---------------------------- MODULE Spec2Model ----------------------------
(***************************************************************************)
(* check_ethernet: a Nagios plugin that checks one network interface.      *)
(* main() builds a Configuration from the command line, reads an           *)
(* InterfaceState from /sys/class/net/<if>/ and the interface list,        *)
(* evaluates both into a NagiosStatus and prints the winning bucket.       *)
(*                                                                         *)
(* Text that the program parses (command line arguments, sysfs file        *)
(* contents) is a sequence of one-character strings; text that the program *)
(* only stores, compares and formats into messages is a TLA+ string.       *)
(***************************************************************************)
EXTENDS Integers, Sequences, FiniteSets, TLC

VARIABLES
    pc,          \* position of main(): "start", "cfg", "ifstate", "nag", or where
                 \* the process exited: "help", "cfg_failed", "ifstate_failed", "exited"
    argv,        \* the command line as getopts sees it
    sysfs,       \* result of fs::read_to_string for operstate, duplex, mtu, speed
    netifs,      \* ips of the interface as returned by datalink::interfaces()
    cfg,         \* Configuration
    ifstate,     \* InterfaceState
    nag_status,  \* NagiosStatus
    stdout,      \* lines written with println!
    stderr,      \* lines written with eprintln!
    exitcode     \* argument of process::exit, -1 while running

vars == <<pc, argv, sysfs, netifs, cfg, ifstate, nag_status, stdout, stderr, exitcode>>

-----------------------------------------------------------------------------
(* Program constants *)

STATE_OK == 0
STATE_WARNING == 1
STATE_CRITICAL == 2
STATE_UNKNOWN == 3

ADDR_IPV4 == 1
ADDR_IPV6 == 2

I32_MAX == 2147483647
I32_MIN == (-2147483647) - 1

-----------------------------------------------------------------------------
(* Bounds of the model *)

\* longest list of addresses an interface carries
MaxIps == 2

-----------------------------------------------------------------------------
(* Text helpers *)

\* the String made of the characters cs
RECURSIVE Str(_)
Str(cs) == IF cs = <<>> THEN "" ELSE Head(cs) \o Str(Tail(cs))

\* char::is_whitespace: the Unicode White_Space characters. In the order written
\* below: U+0009 (tab), U+000A (line feed), U+000B (vertical tab), U+000C (form
\* feed), U+000D (carriage return), U+0020 (space), U+0085 (next line), U+00A0
\* (no-break space), U+1680 (ogham space mark). The remaining White_Space
\* characters (U+2000 .. U+200A, U+2028, U+2029, U+202F, U+205F, U+3000) cannot
\* be written in a string of this module and so are no characters of the model.
IsWhitespace(c) ==
    c \in {"\t", "\n", "", "\f", "\r", " ", "", " ", " "}

RECURSIVE TrimStart(_)
TrimStart(cs) ==
    IF cs # <<>> /\ IsWhitespace(Head(cs)) THEN TrimStart(Tail(cs)) ELSE cs

RECURSIVE TrimEnd(_)
TrimEnd(cs) ==
    IF cs # <<>> /\ IsWhitespace(cs[Len(cs)])
    THEN TrimEnd(SubSeq(cs, 1, Len(cs) - 1))
    ELSE cs

\* str::trim
Trim(cs) == TrimEnd(TrimStart(cs))

IsDigit(c) == c \in {"0", "1", "2", "3", "4", "5", "6", "7", "8", "9"}

DigitVal(c) ==
    CASE c = "0" -> 0 [] c = "1" -> 1 [] c = "2" -> 2 [] c = "3" -> 3
      [] c = "4" -> 4 [] c = "5" -> 5 [] c = "6" -> 6 [] c = "7" -> 7
      [] c = "8" -> 8 [] c = "9" -> 9

\* the digit loop of i32::from_str: checked multiply-and-add (or subtract when
\* the number is negative); a non-digit or an overflow is an error
RECURSIVE ParseDigits(_, _, _)
ParseDigits(cs, acc, neg) ==
    IF cs = <<>> THEN [ok |-> TRUE, v |-> acc]
    ELSE IF ~IsDigit(Head(cs)) THEN [ok |-> FALSE, v |-> 0]
    ELSE LET d == DigitVal(Head(cs)) IN
         IF neg
         THEN IF acc < (I32_MIN + d + 9) \div 10
              THEN [ok |-> FALSE, v |-> 0]
              ELSE ParseDigits(Tail(cs), acc * 10 - d, neg)
         ELSE IF acc > (I32_MAX - d) \div 10
              THEN [ok |-> FALSE, v |-> 0]
              ELSE ParseDigits(Tail(cs), acc * 10 + d, neg)

\* str::parse::<i32>(): optional sign, then at least one digit, nothing else
ParseI32(cs) ==
    IF cs = <<>> THEN [ok |-> FALSE, v |-> 0]
    ELSE IF cs = <<"+">> \/ cs = <<"-">> THEN [ok |-> FALSE, v |-> 0]
    ELSE IF Head(cs) = "+" THEN ParseDigits(Tail(cs), 0, FALSE)
    ELSE IF Head(cs) = "-" THEN ParseDigits(Tail(cs), 0, TRUE)
    ELSE ParseDigits(cs, 0, FALSE)

\* str::split(":").collect(): the pieces between the colons, at least one
RECURSIVE SplitColon(_, _)
SplitColon(cs, cur) ==
    IF cs = <<>> THEN <<cur>>
    ELSE IF Head(cs) = ":" THEN <<cur>> \o SplitColon(Tail(cs), <<>>)
    ELSE SplitColon(Tail(cs), Append(cur, Head(cs)))

\* [String]::join(sep)
RECURSIVE Join(_, _)
Join(msgs, sep) ==
    IF msgs = <<>> THEN ""
    ELSE IF Len(msgs) = 1 THEN msgs[1]
    ELSE msgs[1] \o sep \o Join(Tail(msgs), sep)


-----------------------------------------------------------------------------
(* ipnetwork: networks and containment *)

RECURSIVE Pow2(_)
Pow2(n) == IF n = 0 THEN 1 ELSE 2 * Pow2(n - 1)

\* the leading `bits` bits of a w-bit segment, the rest cleared (seg & mask)
MaskSeg(seg, bits, w) == (seg \div Pow2(w - bits)) * Pow2(w - bits)

\* how many of the prefix's bits fall into the k-th segment of width w
SegBits(prefix, k, w) ==
    LET left == prefix - w * (k - 1) IN
    IF left <= 0 THEN 0 ELSE IF left >= w THEN w ELSE left

\* IpvNNetwork::contains: (ip & mask) == (network & mask), segment by segment
NetContains(net, prefix, w, ip) ==
    \A k \in 1..Len(net) :
        MaskSeg(ip[k], SegBits(prefix, k, w), w)
            = MaskSeg(net[k], SegBits(prefix, k, w), w)

\* "169.254.0.0/16"
link_local_ipv4 == [addr |-> <<169, 254, 0, 0>>, prefix |-> 16]
\* "fe80::/10" (0xfe80 = 65152)
link_local_ipv6 == [addr |-> <<65152, 0, 0, 0, 0, 0, 0, 0>>, prefix |-> 10]

IsLinkLocal4(ip) == NetContains(link_local_ipv4.addr, link_local_ipv4.prefix, 8, ip)
IsLinkLocal6(ip) == NetContains(link_local_ipv6.addr, link_local_ipv6.prefix, 16, ip)

\* the counting loop over ifs.ips: link-local and other addresses per family
RECURSIVE CountAddrs(_, _)
CountAddrs(ips, c) ==
    IF ips = <<>> THEN c
    ELSE LET n == Head(ips) IN
         CountAddrs(Tail(ips),
            IF n.v = 4
            THEN IF IsLinkLocal4(n.ip)
                 THEN [c EXCEPT !.link_local_4 = @ + 1]
                 ELSE [c EXCEPT !.non_link_local_4 = @ + 1]
            ELSE IF IsLinkLocal6(n.ip)
                 THEN [c EXCEPT !.link_local_6 = @ + 1]
                 ELSE [c EXCEPT !.non_link_local_6 = @ + 1])

ZeroCounts ==
    [link_local_4 |-> 0, non_link_local_4 |-> 0,
     link_local_6 |-> 0, non_link_local_6 |-> 0]

\* address_type & flag == flag, for a one-bit flag
HasFlag(address_type, flag) == (address_type \div flag) % 2 = 1

-----------------------------------------------------------------------------
(* NagiosStatus::new *)

EmptyStatus == [critical |-> <<>>, warning |-> <<>>, ok |-> <<>>, unknown |-> <<>>]

PushCritical(st, msg) == [st EXCEPT !.critical = Append(@, msg)]
PushWarning(st, msg)  == [st EXCEPT !.warning = Append(@, msg)]
PushOk(st, msg)       == [st EXCEPT !.ok = Append(@, msg)]
PushUnknown(st, msg)  == [st EXCEPT !.unknown = Append(@, msg)]

SpeedAboveMsg(c, i) ==
    "Negotiated interface speed (" \o ToString(i.speed)
        \o " MBit/s) is greater than requested interface speed ("
        \o ToString(c.speed) \o " MBit/s)"
SpeedBelowMsg(c, i) ==
    "Negotiated interface speed (" \o ToString(i.speed)
        \o " MBit/s) is below requested interface speed ("
        \o ToString(c.speed) \o " MBit/s)"
SpeedOkMsg(i) == "Negotiated interface speed is " \o ToString(i.speed) \o " MBit/s"

DuplexUnknownMsg(i) == "Unknown duplex mode " \o i.duplex
DuplexMismatchMsg(c, i) ==
    "Negotiated duplex mode is " \o i.duplex \o " instead of " \o c.duplex
DuplexOkMsg(i) == "Negotiated duplex mode is " \o i.duplex

MtuMismatchMsg(c, i) ==
    "MTU size of " \o ToString(i.mtu) \o " does not match requested MTU size of "
        \o ToString(c.mtu)
MtuOkMsg(i) == "MTU size is " \o ToString(i.mtu)

\* mutant: a speed equal to the requested one counts as greater
SpeedCheck_EqualIsAbove(c, i, st) ==
    IF i.speed >= c.speed THEN PushWarning(st, SpeedAboveMsg(c, i))
    ELSE IF c.report_critical
    THEN PushCritical(st, SpeedBelowMsg(c, i))
    ELSE PushWarning(st, SpeedBelowMsg(c, i))

\* negotiated interface speed
SpeedCheck(c, i, st) ==
    IF i.speed > c.speed THEN PushWarning(st, SpeedAboveMsg(c, i))
    ELSE IF i.speed < c.speed
    THEN IF c.report_critical
         THEN PushCritical(st, SpeedBelowMsg(c, i))
         ELSE PushWarning(st, SpeedBelowMsg(c, i))
    ELSE PushOk(st, SpeedOkMsg(i))

\* negotiated duplex mode
DuplexCheck(c, i, st) ==
    IF i.duplex # "half" /\ i.duplex # "full"
    THEN PushUnknown(st, DuplexUnknownMsg(i))
    ELSE IF i.duplex # c.duplex
    THEN IF c.report_critical
         THEN PushCritical(st, DuplexMismatchMsg(c, i))
         ELSE PushWarning(st, DuplexMismatchMsg(c, i))
    ELSE PushOk(st, DuplexOkMsg(i))

\* mutant: the duplex mode is only looked at when the speed is as requested
SpeedDuplexCheck_ShortCircuit(c, i, st) ==
    IF c.speed > 0
    THEN IF i.speed = c.speed
         THEN DuplexCheck(c, i, SpeedCheck(c, i, st))
         ELSE SpeedCheck(c, i, st)
    ELSE st

SpeedDuplexCheck(c, i, st) ==
    IF c.speed > 0 THEN DuplexCheck(c, i, SpeedCheck(c, i, st)) ELSE st

\* mutant: an MTU mismatch is a warning whatever report_critical says
MtuCheck_NeverCritical(c, i, st) ==
    IF c.mtu > 0
    THEN IF i.mtu # c.mtu
         THEN PushWarning(st, MtuMismatchMsg(c, i))
         ELSE PushOk(st, MtuOkMsg(i))
    ELSE st

MtuCheck(c, i, st) ==
    IF c.mtu > 0
    THEN IF i.mtu # c.mtu
         THEN IF c.report_critical
              THEN PushCritical(st, MtuMismatchMsg(c, i))
              ELSE PushWarning(st, MtuMismatchMsg(c, i))
         ELSE PushOk(st, MtuOkMsg(i))
    ELSE st

\* mutant: the addresses of both families count whatever address_type selects
AddressCheck_NoFamilyFilter(c, i, st) ==
    IF c.address_type # 0
    THEN LET n == CountAddrs(i.ips, ZeroCounts)
             link_local == n.link_local_4 + n.link_local_6
             non_link_local == n.non_link_local_4 + n.non_link_local_6
         IN IF non_link_local = 0 /\ link_local = 0
            THEN PushCritical(st, "No IP address assigned")
            ELSE IF non_link_local = 0 /\ link_local > 0
            THEN PushCritical(st, "Only link local address(es) are assigned")
            ELSE PushOk(st, "Non link local address(es) assigned")
    ELSE st

AddressCheck(c, i, st) ==
    IF c.address_type # 0
    THEN LET n == CountAddrs(i.ips, ZeroCounts)
             link_local ==
                 (IF HasFlag(c.address_type, ADDR_IPV4) THEN n.link_local_4 ELSE 0)
                 + (IF HasFlag(c.address_type, ADDR_IPV6) THEN n.link_local_6 ELSE 0)
             non_link_local ==
                 (IF HasFlag(c.address_type, ADDR_IPV4) THEN n.non_link_local_4 ELSE 0)
                 + (IF HasFlag(c.address_type, ADDR_IPV6) THEN n.non_link_local_6 ELSE 0)
         IN IF non_link_local = 0 /\ link_local = 0
            THEN PushCritical(st, "No IP address assigned")
            ELSE IF non_link_local = 0 /\ link_local > 0
            THEN PushCritical(st, "Only link local address(es) are assigned")
            ELSE PushOk(st, "Non link local address(es) assigned")
    ELSE st

\* the checks of an interface that is up, in the order the code runs them
UpChecks(c, i, st) == AddressCheck(c, i, MtuCheck(c, i, SpeedDuplexCheck(c, i, st)))

\* mutant: the "down" test is lost, a down interface is an unexpected state
NagiosStatusNew_NoDownCheck(c, i) ==
    IF ~i.present
    THEN PushCritical(EmptyStatus, "Interface is not present")
    ELSE IF i.operstate = "up"
    THEN UpChecks(c, i, PushOk(EmptyStatus, "Interface is up"))
    ELSE PushUnknown(EmptyStatus, "Interface is " \o i.operstate)

\* mutant: no return after the unknown message, the checks run on
NagiosStatusNew_NoReturnOnUnknown(c, i) ==
    IF ~i.present
    THEN PushCritical(EmptyStatus, "Interface is not present")
    ELSE IF i.operstate = "down"
    THEN PushCritical(EmptyStatus, "Interface is DOWN")
    ELSE IF i.operstate = "up"
    THEN UpChecks(c, i, PushOk(EmptyStatus, "Interface is up"))
    ELSE UpChecks(c, i, PushUnknown(EmptyStatus, "Interface is " \o i.operstate))

NagiosStatusNew(c, i) ==
    IF ~i.present
    THEN PushCritical(EmptyStatus, "Interface is not present")
    ELSE IF i.operstate = "down"
    THEN PushCritical(EmptyStatus, "Interface is DOWN")
    ELSE IF i.operstate = "up"
    THEN UpChecks(c, i, PushOk(EmptyStatus, "Interface is up"))
    ELSE PushUnknown(EmptyStatus, "Interface is " \o i.operstate)

\* mutant: the ok bucket is looked at before the warning bucket
NagiosStatusPrint_OkFirst(st) ==
    IF Len(st.unknown) > 0
    THEN [out |-> <<Join(st.unknown, ", ")>>, code |-> STATE_UNKNOWN]
    ELSE IF Len(st.critical) > 0
    THEN [out |-> <<Join(st.critical, ", ")>>, code |-> STATE_CRITICAL]
    ELSE IF Len(st.ok) > 0
    THEN [out |-> <<Join(st.ok, ", ")>>, code |-> STATE_OK]
    ELSE IF Len(st.warning) > 0
    THEN [out |-> <<Join(st.warning, ", ")>>, code |-> STATE_WARNING]
    ELSE [out |-> <<>>, code |-> STATE_UNKNOWN]

\* mutant: the critical bucket is looked at before the unknown bucket
NagiosStatusPrint_CriticalFirst(st) ==
    IF Len(st.critical) > 0
    THEN [out |-> <<Join(st.critical, ", ")>>, code |-> STATE_CRITICAL]
    ELSE IF Len(st.unknown) > 0
    THEN [out |-> <<Join(st.unknown, ", ")>>, code |-> STATE_UNKNOWN]
    ELSE IF Len(st.warning) > 0
    THEN [out |-> <<Join(st.warning, ", ")>>, code |-> STATE_WARNING]
    ELSE IF Len(st.ok) > 0
    THEN [out |-> <<Join(st.ok, ", ")>>, code |-> STATE_OK]
    ELSE [out |-> <<>>, code |-> STATE_UNKNOWN]

\* NagiosStatus::print: the line written and the value returned
NagiosStatusPrint(st) ==
    IF Len(st.unknown) > 0
    THEN [out |-> <<Join(st.unknown, ", ")>>, code |-> STATE_UNKNOWN]
    ELSE IF Len(st.critical) > 0
    THEN [out |-> <<Join(st.critical, ", ")>>, code |-> STATE_CRITICAL]
    ELSE IF Len(st.warning) > 0
    THEN [out |-> <<Join(st.warning, ", ")>>, code |-> STATE_WARNING]
    ELSE IF Len(st.ok) > 0
    THEN [out |-> <<Join(st.ok, ", ")>>, code |-> STATE_OK]
    ELSE [out |-> <<>>, code |-> STATE_UNKNOWN]

-----------------------------------------------------------------------------
(* Configuration::new *)

None == [some |-> FALSE, v |-> <<>>]
Some(cs) == [some |-> TRUE, v |-> cs]

\* Option::unwrap_or of opt_str
OptOr(opt, default) == IF opt.some THEN opt.v ELSE default

NoConfiguration ==
    [interface |-> "", mtu |-> -1, speed |-> 1000, duplex |-> "full",
     report_critical |-> FALSE, address_type |-> 0]

ConfigErr(msg) == [kind |-> "err", err |-> msg, cfg |-> NoConfiguration]

\* -s <speed>[:<mode>]: the speed and duplex, or an error
ParseState(state_) ==
    LET state_vec_ == SplitColon(state_, <<>>) IN
    IF Len(state_vec_) > 2 \/ Len(state_vec_) = 0
    THEN [ok |-> FALSE, err |-> "Invalid link mode", speed |-> 1000, duplex |-> "full"]
    ELSE IF Len(state_vec_) = 1
    THEN LET p == ParseI32(state_vec_[1]) IN
         IF p.ok
         THEN [ok |-> TRUE, err |-> "", speed |-> p.v, duplex |-> "full"]
         ELSE [ok |-> FALSE, err |-> "Can't convert link speed to an integer",
               speed |-> 1000, duplex |-> "full"]
    ELSE LET p == IF state_vec_[1] # <<>> THEN ParseI32(state_vec_[1])
                  ELSE [ok |-> TRUE, v |-> 1000] IN
         IF p.ok
         THEN [ok |-> TRUE, err |-> "", speed |-> p.v, duplex |-> Str(state_vec_[2])]
         ELSE [ok |-> FALSE, err |-> "Can't convert link speed to an integer",
               speed |-> 1000, duplex |-> "full"]

\* -a ip|ipv4|ipv6: the address families to check, -1 for any other value
ParseAddressType(raw_address_type) ==
    IF raw_address_type = "ip" THEN ADDR_IPV4 + ADDR_IPV6
    ELSE IF raw_address_type = "ipv4" THEN ADDR_IPV4
    ELSE IF raw_address_type = "ipv6" THEN ADDR_IPV6
    ELSE IF raw_address_type = "" THEN 0
    ELSE -1

ConfigurationNew(av) ==
    IF ~av.parse_ok THEN ConfigErr("Failed to parse command line")
    ELSE IF av.h THEN [kind |-> "help", err |-> "", cfg |-> NoConfiguration]
    ELSE
    LET interface == Str(OptOr(av.i, <<>>))
        mtu == ParseI32(OptOr(av.m, <<"-", "1">>))
        state == ParseState(OptOr(av.s, <<"1", "0", "0", "0", ":", "f", "u", "l", "l">>))
        address_type == ParseAddressType(Str(OptOr(av.a, <<>>)))
    IN  IF ~mtu.ok THEN ConfigErr("Can't convert MTU to an integer")
        ELSE IF ~state.ok THEN ConfigErr(state.err)
        ELSE IF address_type = -1
        THEN ConfigErr("Invalid parameter for address assignment check")
        ELSE IF interface = "" THEN ConfigErr("Interface to check is mandatory")
        ELSE [kind |-> "ok", err |-> "",
              cfg |-> [interface |-> interface, mtu |-> mtu.v, speed |-> state.speed,
                       duplex |-> state.duplex, report_critical |-> av.C,
                       address_type |-> address_type]]

-----------------------------------------------------------------------------
(* InterfaceState::new *)

\* fs::read_to_string: Err, or Ok with the file's content
ReadErr == [ok |-> FALSE, s |-> <<>>]
ReadOk(cs) == [ok |-> TRUE, s |-> cs]

IfState(present, speed, mtu, operstate, duplex, ips) ==
    [present |-> present, speed |-> speed, mtu |-> mtu, operstate |-> operstate,
     duplex |-> duplex, ips |-> ips]

NoInterfaceState == IfState(FALSE, -1, -1, "unknown", "unknown", <<>>)

IfOk(ifs) == [ok |-> TRUE, err |-> "", ifs |-> ifs]
IfErr(msg) == [ok |-> FALSE, err |-> msg, ifs |-> NoInterfaceState]

\* mutant: a speed that is no integer is taken as "interface not present"
InterfaceStateNew_SpeedParseNonFatal(fs, ips) ==
    IF ~fs.operstate.ok THEN IfOk(IfState(FALSE, -1, -1, "unknown", "unknown", ips))
    ELSE LET operstate == Str(Trim(fs.operstate.s)) IN
    IF ~fs.duplex.ok THEN IfOk(IfState(FALSE, -1, -1, operstate, "unknown", ips))
    ELSE LET duplex == Str(Trim(fs.duplex.s)) IN
    IF ~fs.mtu.ok THEN IfOk(IfState(FALSE, -1, -1, operstate, duplex, ips))
    ELSE LET mtu == ParseI32(Trim(Trim(fs.mtu.s))) IN
    IF ~mtu.ok THEN IfErr("Can't convert reported MTU to an integer")
    ELSE IF ~fs.speed.ok THEN IfOk(IfState(FALSE, -1, mtu.v, operstate, duplex, ips))
    ELSE LET speed == ParseI32(Trim(fs.speed.s)) IN
    IF ~speed.ok THEN IfOk(IfState(FALSE, -1, mtu.v, operstate, duplex, ips))
    ELSE IfOk(IfState(TRUE, speed.v, mtu.v, operstate, duplex, ips))

\* fs is the result of reading each of the four files of the interface's sysfs
\* directory, ips the addresses datalink::interfaces() lists for the interface
InterfaceStateNew(fs, ips) ==
    IF ~fs.operstate.ok THEN IfOk(IfState(FALSE, -1, -1, "unknown", "unknown", ips))
    ELSE LET operstate == Str(Trim(fs.operstate.s)) IN
    IF ~fs.duplex.ok THEN IfOk(IfState(FALSE, -1, -1, operstate, "unknown", ips))
    ELSE LET duplex == Str(Trim(fs.duplex.s)) IN
    IF ~fs.mtu.ok THEN IfOk(IfState(FALSE, -1, -1, operstate, duplex, ips))
    ELSE LET mtu == ParseI32(Trim(Trim(fs.mtu.s))) IN
    IF ~mtu.ok THEN IfErr("Can't convert reported MTU to an integer")
    ELSE IF ~fs.speed.ok THEN IfOk(IfState(FALSE, -1, mtu.v, operstate, duplex, ips))
    ELSE LET speed == ParseI32(Trim(fs.speed.s)) IN
    IF ~speed.ok THEN IfErr("Can't convert reported link speed to an integer")
    ELSE IfOk(IfState(TRUE, speed.v, mtu.v, operstate, duplex, ips))

-----------------------------------------------------------------------------
(* Inputs *)

\* command lines
ArgInterface == {None, Some(<<"e", "t", "h", "0">>)}
ArgMtu == {None, Some(<<"1", "5", "0", "0">>), Some(<<"x">>)}
ArgState ==
    {None,
     Some(<<"1", "0", "0">>),
     Some(<<":", "h", "a", "l", "f">>),
     Some(<<"1", "0", "0", "0", ":", "a", "u", "t", "o">>),
     Some(<<"0">>),
     Some(<<"a", "b", "c">>),
     Some(<<"1", ":", "2", ":", "3">>)}
ArgAddress ==
    {None, Some(<<"i", "p">>), Some(<<"i", "p", "v", "4">>),
     Some(<<"i", "p", "v", "6">>), Some(<<"f", "o", "o">>)}

Argvs ==
    [parse_ok : BOOLEAN, h : BOOLEAN, i : ArgInterface, m : ArgMtu, s : ArgState,
     C : BOOLEAN, a : ArgAddress]

\* contents of the sysfs files
OperstateFiles ==
    {ReadErr, ReadOk(<<"u", "p", "\n">>), ReadOk(<<"d", "o", "w", "n", "\n">>),
     ReadOk(<<"d", "o", "r", "m", "a", "n", "t", "\n">>)}
DuplexFiles ==
    {ReadErr, ReadOk(<<"f", "u", "l", "l", "\n">>), ReadOk(<<"h", "a", "l", "f", "\n">>),
     ReadOk(<<"u", "n", "k", "n", "o", "w", "n", "\n">>)}
MtuFiles ==
    {ReadErr, ReadOk(<<"1", "5", "0", "0", "\n">>), ReadOk(<<"9", "0", "0", "0", "\n">>),
     ReadOk(<<"a", "b", "c", "\n">>)}
SpeedFiles ==
    {ReadErr, ReadOk(<<"1", "0", "0", "0", "\n">>), ReadOk(<<"1", "0", "0", "\n">>),
     ReadOk(<<"x", "\n">>)}

SysfsDirs ==
    [operstate : OperstateFiles, duplex : DuplexFiles, mtu : MtuFiles, speed : SpeedFiles]

NoSysfs == [operstate |-> ReadErr, duplex |-> ReadErr, mtu |-> ReadErr, speed |-> ReadErr]

\* addresses: 169.254.1.1/16, 192.168.1.10/24, fe80::1/64, 2001:db8::1/64
Addrs ==
    <<[v |-> 4, ip |-> <<169, 254, 1, 1>>, prefix |-> 16],
      [v |-> 4, ip |-> <<192, 168, 1, 10>>, prefix |-> 24],
      [v |-> 6, ip |-> <<65152, 0, 0, 0, 0, 0, 0, 1>>, prefix |-> 64],
      [v |-> 6, ip |-> <<8193, 3512, 0, 0, 0, 0, 0, 1>>, prefix |-> 64]>>

\* the address lists of up to MaxIps entries: IPv4 entries before IPv6 ones,
\* no address twice
IpLists ==
    LET picks == UNION {[1..n -> 1..Len(Addrs)] : n \in 0..MaxIps}
        ordered(p) == \A k \in 1..(Len(p) - 1) : p[k] < p[k + 1]
    IN  {[k \in 1..Len(p) |-> Addrs[p[k]]] : p \in {q \in picks : ordered(q)}}

-----------------------------------------------------------------------------
(* main *)

Init ==
    /\ pc = "start"
    /\ argv \in Argvs
    /\ sysfs = NoSysfs
    /\ netifs = <<>>
    /\ cfg = NoConfiguration
    /\ ifstate = NoInterfaceState
    /\ nag_status = EmptyStatus
    /\ stdout = <<>>
    /\ stderr = <<>>
    /\ exitcode = -1

\* Configuration::new(&argv, &options).unwrap_or_else(...)
MainConfiguration ==
    /\ pc = "start"
    /\ LET r == ConfigurationNew(argv) IN
       /\ cfg' = r.cfg
       /\ pc' = CASE r.kind = "ok" -> "cfg"
                  [] r.kind = "help" -> "help"
                  [] r.kind = "err" -> "cfg_failed"
       /\ stdout' = IF r.kind = "help" THEN <<"usage">> ELSE stdout
       /\ stderr' = IF r.kind = "err" THEN <<"Error: " \o r.err>> ELSE stderr
       /\ exitcode' = CASE r.kind = "ok" -> exitcode
                        [] r.kind = "help" -> STATE_OK
                        [] r.kind = "err" -> STATE_UNKNOWN
    /\ UNCHANGED <<argv, sysfs, netifs, ifstate, nag_status>>

\* InterfaceState::new(&cfg).unwrap_or_else(...)
MainInterfaceState ==
    /\ pc = "cfg"
    /\ \E fs \in SysfsDirs, ips \in IpLists :
        LET r == InterfaceStateNew(fs, ips) IN
        /\ sysfs' = fs
        /\ netifs' = ips
        /\ ifstate' = r.ifs
        /\ pc' = IF r.ok THEN "ifstate" ELSE "ifstate_failed"
        /\ stderr' = IF r.ok THEN stderr ELSE <<r.err>>
        /\ exitcode' = IF r.ok THEN exitcode ELSE STATE_UNKNOWN
    /\ UNCHANGED <<argv, cfg, nag_status, stdout>>

\* NagiosStatus::new(&cfg, &ifstate)
MainNagiosStatus ==
    /\ pc = "ifstate"
    /\ nag_status' = NagiosStatusNew(cfg, ifstate)
    /\ pc' = "nag"
    /\ UNCHANGED <<argv, sysfs, netifs, cfg, ifstate, stdout, stderr, exitcode>>

\* nag_status.print(); process::exit(result)
MainPrint ==
    /\ pc = "nag"
    /\ LET r == NagiosStatusPrint(nag_status) IN
       /\ stdout' = r.out
       /\ exitcode' = r.code
    /\ pc' = "exited"
    /\ UNCHANGED <<argv, sysfs, netifs, cfg, ifstate, nag_status, stderr>>

Next ==
    \/ MainConfiguration
    \/ MainInterfaceState
    \/ MainNagiosStatus
    \/ MainPrint

Spec == Init /\ [][Next]_vars

-----------------------------------------------------------------------------
(* NagiosStatus::print on arbitrary buckets *)

\* longest bucket handed to print()
MaxMsgs == 2

PrintMsgs == {"Interface is DOWN", "MTU size is 1500"}
Buckets == UNION {[1..n -> PrintMsgs] : n \in 0..MaxMsgs}

DefaultArgv ==
    [parse_ok |-> TRUE, h |-> FALSE, i |-> Some(<<"e", "t", "h", "0">>), m |-> None,
     s |-> None, C |-> FALSE, a |-> None]

InitPrint ==
    /\ pc = "nag"
    /\ argv = DefaultArgv
    /\ sysfs = NoSysfs
    /\ netifs = <<>>
    /\ cfg = ConfigurationNew(DefaultArgv).cfg
    /\ ifstate = NoInterfaceState
    /\ nag_status \in [critical : Buckets, warning : Buckets, ok : Buckets,
                       unknown : Buckets]
    /\ stdout = <<>>
    /\ stderr = <<>>
    /\ exitcode = -1

SpecPrint == InitPrint /\ [][MainPrint]_vars

-----------------------------------------------------------------------------
(* Properties *)

\* NagiosStatus::new has run on cfg and ifstate
Evaluated == pc \in {"nag", "exited"}

OnlyCritical(msg) ==
    [critical |-> <<msg>>, warning |-> <<>>, ok |-> <<>>, unknown |-> <<>>]
OnlyUnknown(msg) ==
    [critical |-> <<>>, warning |-> <<>>, ok |-> <<>>, unknown |-> <<msg>>]

\* C1: an interface that is not present, or present and "down", gives exactly one
\* critical message ("Interface is not present" resp. "Interface is DOWN"), no
\* other message in any bucket whatever the other fields and the configuration
\* are, and exit code 2.
C1_AbsentOrDown ==
    Evaluated =>
        /\ ~ifstate.present =>
              /\ nag_status = OnlyCritical("Interface is not present")
              /\ pc = "exited" => exitcode = 2 /\ stdout = <<"Interface is not present">>
        /\ (ifstate.present /\ ifstate.operstate = "down") =>
              /\ nag_status = OnlyCritical("Interface is DOWN")
              /\ pc = "exited" => exitcode = 2 /\ stdout = <<"Interface is DOWN">>

\* C1 witness: a down interface whose speed and MTU differ from the expectation
\* and which has no address although the address check is on, reported
C1_Witness ==
    /\ pc = "exited"
    /\ ifstate.present /\ ifstate.operstate = "down"
    /\ cfg.speed > ifstate.speed /\ cfg.mtu > 0 /\ cfg.mtu # ifstate.mtu
    /\ cfg.address_type # 0 /\ ifstate.ips = <<>>
    /\ cfg.report_critical
    /\ exitcode = 2

\* C2 as stated: every observation whose operstate is neither "up" nor "down"
\* gives exactly one unknown message "Interface is <state>" and nothing else.
C2_Original ==
    (Evaluated /\ ifstate.operstate \notin {"up", "down"}) =>
        nag_status = OnlyUnknown("Interface is " \o ifstate.operstate)

\* C2 amended: a PRESENT interface whose operstate is neither "up" nor "down"
\* gives exactly one unknown message "Interface is <state>", nothing in the other
\* buckets whatever the other fields and the configuration are, and exit code 3.
C2_UnexpectedState ==
    (Evaluated /\ ifstate.present /\ ifstate.operstate \notin {"up", "down"}) =>
        /\ nag_status = OnlyUnknown("Interface is " \o ifstate.operstate)
        /\ pc = "exited" =>
              exitcode = 3 /\ stdout = <<"Interface is " \o ifstate.operstate>>

\* C2 witness: a present interface in state "dormant" with a wrong speed, an
\* unknown duplex mode, a wrong MTU and no address, all checks switched on
C2_Witness ==
    /\ pc = "exited"
    /\ ifstate.present /\ ifstate.operstate = "dormant"
    /\ cfg.speed > 0 /\ cfg.speed # ifstate.speed /\ ifstate.duplex = "unknown"
    /\ cfg.mtu > 0 /\ cfg.mtu # ifstate.mtu
    /\ cfg.address_type # 0 /\ ifstate.ips = <<>>
    /\ exitcode = 3

-----------------------------------------------------------------------------

\* the messages of a status, whatever their bucket
AllMsgs(st) == st.unknown \o st.critical \o st.warning \o st.ok

\* how many entries of msgs are in the set S
Count(msgs, S) == Cardinality({k \in 1..Len(msgs) : msgs[k] \in S})

InSeq(msg, msgs) == \E k \in 1..Len(msgs) : msgs[k] = msg

\* C3: print() reports the first non-empty bucket in the order unknown (3),
\* critical (2), warning (1), ok (0): it returns that code and writes only that
\* bucket's messages, joined with ", " in insertion order; with four empty
\* buckets it returns 3.
C3_Precedence ==
    pc = "exited" =>
        LET order == <<nag_status.unknown, nag_status.critical,
                       nag_status.warning, nag_status.ok>>
            codes == <<3, 2, 1, 0>>
            line(b) == CASE Len(b) = 1 -> b[1]
                         [] Len(b) = 2 -> b[1] \o ", " \o b[2]
                         [] Len(b) = 3 -> b[1] \o ", " \o b[2] \o ", " \o b[3]
                         [] Len(b) = 4 ->
                              b[1] \o ", " \o b[2] \o ", " \o b[3] \o ", " \o b[4]
        IN  /\ \A k \in 1..4 :
                 (order[k] # <<>> /\ \A j \in 1..(k - 1) : order[j] = <<>>) =>
                     exitcode = codes[k] /\ stdout = <<line(order[k])>>
            /\ (\A k \in 1..4 : order[k] = <<>>) => exitcode = 3
            /\ nag_status.unknown # <<>> => exitcode = 3

\* C3 witness: all four buckets filled, the unknown bucket with two messages,
\* and print() has answered UNKNOWN
C3_Witness ==
    /\ pc = "exited"
    /\ Len(nag_status.unknown) = 2 /\ nag_status.unknown[1] # nag_status.unknown[2]
    /\ nag_status.critical # <<>> /\ nag_status.warning # <<>> /\ nag_status.ok # <<>>
    /\ exitcode = 3

\* the evaluation of the same facts with report_critical set
Escalated == NagiosStatusNew([cfg EXCEPT !.report_critical = TRUE], ifstate)

\* C4 as stated: with report_critical = false, every message of the warning
\* bucket is, with report_critical = true, in the critical bucket and no longer
\* in the warning bucket.
C4_Original ==
    (Evaluated /\ ~cfg.report_critical) =>
        \A k \in 1..Len(nag_status.warning) :
            /\ InSeq(nag_status.warning[k], Escalated.critical)
            /\ ~InSeq(nag_status.warning[k], Escalated.warning)

\* C4 amended: with report_critical = false, every message of the warning bucket
\* other than "Negotiated interface speed ... is greater than requested ..." is,
\* with report_critical = true, in the critical bucket with the same text and no
\* longer in the warning bucket (speed below the request, duplex mismatch, MTU
\* mismatch); the greater-than-requested message is a warning under both
\* settings and never critical.
C4_Escalation ==
    (Evaluated /\ ~cfg.report_critical) =>
        \A k \in 1..Len(nag_status.warning) :
            LET m == nag_status.warning[k] IN
            IF m = SpeedAboveMsg(cfg, ifstate)
            THEN InSeq(m, Escalated.warning) /\ ~InSeq(m, Escalated.critical)
            ELSE InSeq(m, Escalated.critical) /\ ~InSeq(m, Escalated.warning)

\* C4 witness: speed below the request, wrong duplex mode and wrong MTU, all
\* three warnings because report_critical is off
C4_Witness ==
    /\ pc = "exited" /\ ~cfg.report_critical
    /\ nag_status.warning =
          <<SpeedBelowMsg(cfg, ifstate), DuplexMismatchMsg(cfg, ifstate),
            MtuMismatchMsg(cfg, ifstate)>>
    /\ exitcode = 1

\* the messages each check can emit for the current cfg and ifstate
SpeedMsgs ==
    {SpeedAboveMsg(cfg, ifstate), SpeedBelowMsg(cfg, ifstate), SpeedOkMsg(ifstate)}
DuplexMsgs ==
    {DuplexUnknownMsg(ifstate), DuplexMismatchMsg(cfg, ifstate), DuplexOkMsg(ifstate)}
MtuMsgs == {MtuMismatchMsg(cfg, ifstate), MtuOkMsg(ifstate)}
AddressMsgs ==
    {"No IP address assigned", "Only link local address(es) are assigned",
     "Non link local address(es) assigned"}

\* C5: for a present interface that is up, the buckets together hold exactly one
\* "Interface is up" (in ok), exactly one speed and one duplex message iff
\* cfg.speed > 0, exactly one MTU message iff cfg.mtu > 0, exactly one address
\* message iff cfg.address_type != 0, and nothing else.
C5_Accumulation ==
    (Evaluated /\ ifstate.present /\ ifstate.operstate = "up") =>
        LET all == AllMsgs(nag_status)
            one(b) == IF b THEN 1 ELSE 0
        IN  /\ Count(all, {"Interface is up"}) = 1
            /\ InSeq("Interface is up", nag_status.ok)
            /\ Count(all, SpeedMsgs) = one(cfg.speed > 0)
            /\ Count(all, DuplexMsgs) = one(cfg.speed > 0)
            /\ Count(all, MtuMsgs) = one(cfg.mtu > 0)
            /\ Count(all, AddressMsgs) = one(cfg.address_type # 0)
            /\ Len(all) = 1 + 2 * one(cfg.speed > 0) + one(cfg.mtu > 0)
                            + one(cfg.address_type # 0)

\* C5 witness: every check is on, the speed is wrong and the duplex mode is
\* unknown, and the MTU and address checks have still reported
C5_Witness ==
    /\ pc = "exited"
    /\ ifstate.present /\ ifstate.operstate = "up"
    /\ cfg.speed > 0 /\ cfg.mtu > 0 /\ cfg.address_type # 0
    /\ ifstate.speed # cfg.speed
    /\ nag_status.unknown = <<DuplexUnknownMsg(ifstate)>>
    /\ Count(AllMsgs(nag_status), MtuMsgs) = 1
    /\ Count(AllMsgs(nag_status), AddressMsgs) = 1
    /\ Len(AllMsgs(nag_status)) = 5

-----------------------------------------------------------------------------

\* link-local as the claim words it: inside 169.254.0.0/16 resp. fe80::/10
\* (first segment fe80 .. febf, 65152 .. 65215)
InLinkLocalRange(a) ==
    IF a.v = 4 THEN a.ip[1] = 169 /\ a.ip[2] = 254 ELSE a.ip[1] \in 65152..65215

\* the address is of a family that cfg.address_type selects
InScope(a) ==
    \/ a.v = 4 /\ cfg.address_type \in {ADDR_IPV4, ADDR_IPV4 + ADDR_IPV6}
    \/ a.v = 6 /\ cfg.address_type \in {ADDR_IPV6, ADDR_IPV4 + ADDR_IPV6}

\* the address messages of a status, by bucket
AddressPart(st) ==
    LET isAddr(m) == m \in AddressMsgs IN
    [critical |-> SelectSeq(st.critical, isAddr), warning |-> SelectSeq(st.warning, isAddr),
     ok |-> SelectSeq(st.ok, isAddr), unknown |-> SelectSeq(st.unknown, isAddr)]

OnlyAddress(bucket, msg) == [EmptyStatus EXCEPT ![bucket] = <<msg>>]

\* C6: for a present, up interface with the address check on: no address of a
\* selected family gives the critical "No IP address assigned"; addresses of a
\* selected family that are all link-local give the critical "Only link local
\* address(es) are assigned"; one that is not link-local gives an ok message.
\* Addresses of the other family change nothing, nor does report_critical.
C6_AddressCheck ==
    (Evaluated /\ ifstate.present /\ ifstate.operstate = "up" /\ cfg.address_type # 0) =>
        LET scope == SelectSeq(ifstate.ips, InScope)
            part == AddressPart(nag_status)
        IN  /\ scope = <<>> => part = OnlyAddress("critical", "No IP address assigned")
            /\ (scope # <<>> /\ \A k \in 1..Len(scope) : InLinkLocalRange(scope[k])) =>
                  part = OnlyAddress("critical", "Only link local address(es) are assigned")
            /\ (\E k \in 1..Len(scope) : ~InLinkLocalRange(scope[k])) =>
                  part = OnlyAddress("ok", "Non link local address(es) assigned")
            /\ NagiosStatusNew(cfg, [ifstate EXCEPT !.ips = scope]) = nag_status
            /\ AddressPart(NagiosStatusNew(
                   [cfg EXCEPT !.report_critical = ~cfg.report_critical], ifstate)) = part

\* C6 witness: only IPv4 is checked, the interface has a link-local IPv4 address
\* and a global IPv6 address, and the result is "Only link local ..."
C6_Witness ==
    /\ pc = "exited"
    /\ ifstate.present /\ ifstate.operstate = "up" /\ cfg.address_type = ADDR_IPV4
    /\ Len(ifstate.ips) = 2
    /\ ifstate.ips[1].v = 4 /\ InLinkLocalRange(ifstate.ips[1])
    /\ ifstate.ips[2].v = 6 /\ ~InLinkLocalRange(ifstate.ips[2])
    /\ InSeq("Only link local address(es) are assigned", nag_status.critical)
    /\ exitcode = 2

\* the all-match scenario: up, 1000 MBit/s, full duplex, MTU 1500, and exactly
\* that is expected, the address check off
C7_Scenario ==
    /\ pc = "exited"
    /\ ifstate.present /\ ifstate.operstate = "up" /\ ifstate.speed = 1000
    /\ ifstate.duplex = "full" /\ ifstate.mtu = 1500
    /\ cfg.speed = 1000 /\ cfg.duplex = "full" /\ cfg.mtu = 1500 /\ cfg.address_type = 0

\* C7 as stated: the all-match scenario gives three ok messages, empty unknown,
\* critical and warning buckets, and exit code 0.
C7_Original ==
    C7_Scenario =>
        /\ Len(nag_status.ok) = 3
        /\ nag_status.unknown = <<>> /\ nag_status.critical = <<>>
        /\ nag_status.warning = <<>>
        /\ exitcode = 0

\* C7 amended: the all-match scenario gives FOUR ok messages ("Interface is up"
\* and one each for speed, duplex mode and MTU), empty unknown, critical and
\* warning buckets, and exit code 0.
C7_AllMatch ==
    C7_Scenario =>
        /\ nag_status.ok =
              <<"Interface is up", "Negotiated interface speed is 1000 MBit/s",
                "Negotiated duplex mode is full", "MTU size is 1500">>
        /\ nag_status.unknown = <<>> /\ nag_status.critical = <<>>
        /\ nag_status.warning = <<>>
        /\ exitcode = 0

\* C7 witness: the scenario has been evaluated and reported
C7_Witness == C7_Scenario /\ Len(nag_status.ok) = 4 /\ Len(stdout) = 1

\* InterfaceState::new has run
FactsRead == pc \in {"ifstate", "ifstate_failed", "nag", "exited"}

\* the attribute was read as text that is no integer
NotAnInteger(f) == f.ok /\ ~ParseI32(Trim(f.s)).ok

\* the process ended with the reader's error, the evaluator never ran
FatalFormatError ==
    /\ pc = "ifstate_failed" /\ exitcode = 3
    /\ nag_status = EmptyStatus /\ stdout = <<>>

\* the reader answered "not present" and that observation is evaluated
NotPresentObservation ==
    /\ pc # "ifstate_failed" /\ ~ifstate.present
    /\ Evaluated => nag_status = OnlyCritical("Interface is not present")
    /\ pc = "exited" => exitcode = 2

\* C8 as stated: whatever else is readable, an mtu or speed attribute that is
\* text but no integer makes InterfaceState::new fail (exit 3, no evaluation);
\* otherwise an unreadable attribute gives a present = false observation.
C8_Original ==
    FactsRead =>
        /\ (NotAnInteger(sysfs.mtu) \/ NotAnInteger(sysfs.speed)) => FatalFormatError
        /\ (/\ ~NotAnInteger(sysfs.mtu) /\ ~NotAnInteger(sysfs.speed)
            /\ \E f \in {sysfs.operstate, sysfs.duplex, sysfs.mtu, sysfs.speed} : ~f.ok)
              => NotPresentObservation

\* C8 amended: InterfaceState::new reads operstate, duplex, mtu and speed in
\* this order and stops at the first attribute that is unreadable or (mtu,
\* speed) no integer. If that first failure is an mtu or speed that is text but
\* no integer, it returns an error, the evaluator never runs and the exit code
\* is 3. If it is an unreadable attribute, the observation is present = false
\* and is evaluated normally, whatever the attributes after it hold.
C8_FirstFailureDecides ==
    FactsRead =>
        LET files == <<sysfs.operstate, sysfs.duplex, sysfs.mtu, sysfs.speed>>
            fails(k) == ~files[k].ok \/ (k \in {3, 4} /\ NotAnInteger(files[k]))
            first(k) == fails(k) /\ \A j \in 1..(k - 1) : ~fails(j)
        IN  \A k \in 1..4 :
                first(k) => IF files[k].ok THEN FatalFormatError
                            ELSE NotPresentObservation

\* C8 witness: operstate, duplex and mtu are fine, the speed is no integer and
\* the process has ended with code 3
C8_Witness ==
    /\ pc = "ifstate_failed"
    /\ sysfs.operstate.ok /\ sysfs.duplex.ok /\ sysfs.mtu.ok
    /\ ~NotAnInteger(sysfs.mtu) /\ NotAnInteger(sysfs.speed)
    /\ exitcode = 3

\* C9: Configuration::new either fails (exit 3) or yields a duplex of "half" or
\* "full"; without -s, or with a speed only, duplex is "full"; with an empty
\* speed part (":mode") the speed stays 1000.
C9_DuplexDomain ==
    pc \notin {"start", "help"} =>
        \/ pc = "cfg_failed" /\ exitcode = 3
        \/ /\ pc # "cfg_failed"
           /\ cfg.duplex \in {"half", "full"}
           /\ (~argv.s.some \/ Len(SplitColon(argv.s.v, <<>>)) = 1) => cfg.duplex = "full"
           /\ (argv.s.some /\ Len(SplitColon(argv.s.v, <<>>)) = 2
                 /\ SplitColon(argv.s.v, <<>>)[1] = <<>>) => cfg.speed = 1000

\* C10: exit code 0 from print() means the interface is present and up and every
\* enabled check passed; and the evaluator never returns four empty buckets.
C10_OkIsSound ==
    /\ Evaluated => AllMsgs(nag_status) # <<>>
    /\ (pc = "exited" /\ exitcode = 0) =>
          /\ ifstate.present /\ ifstate.operstate = "up"
          /\ \/ cfg.speed <= 0
             \/ /\ ifstate.speed = cfg.speed
                /\ ifstate.duplex = cfg.duplex
                /\ ifstate.duplex \in {"half", "full"}
          /\ cfg.mtu <= 0 \/ ifstate.mtu = cfg.mtu
          /\ \/ cfg.address_type = 0
             \/ \E k \in 1..Len(ifstate.ips) :
                   InScope(ifstate.ips[k]) /\ ~InLinkLocalRange(ifstate.ips[k])

\* C10 witness: every check is on and passes, with a link-local address next to
\* the global one, and the exit code is 0
C10_Witness ==
    /\ pc = "exited" /\ exitcode = 0
    /\ cfg.speed > 0 /\ cfg.mtu > 0 /\ cfg.address_type = ADDR_IPV4 + ADDR_IPV6
    /\ \E k \in 1..Len(ifstate.ips) : InLinkLocalRange(ifstate.ips[k])
    /\ Len(nag_status.ok) = 5

=============================================================================
